---- MODULE Spec2Model ----
(***************************************************************************)
(* Model of the SL-XG stock selection bot.                                 *)
(*                                                                         *)
(*   db_manager.py    save_data / insert_on_conflict_nothing over the      *)
(*                    stock_daily table (database.py, StockDaily)          *)
(*   data_fetcher.py  fetch_daily_data (retry loop) and backfill_data      *)
(*                    (gap reconciliation pass)                            *)
(*   strategy.py      WeightedScoringStrategy: calculate_indicators,       *)
(*                    calculate_scores, run                                *)
(*                                                                         *)
(* Three specifications share the variables:                               *)
(*   SpecStore     arbitrary sequences of save_data calls                  *)
(*   Spec          successive backfill_data passes over a fixed window     *)
(*   SpecStrategy  WeightedScoringStrategy.run on a bounded family of      *)
(*                 input frames                                            *)
(* A specification leaves the variables of the other parts at their idle   *)
(* values.                                                                 *)
(***************************************************************************)
EXTENDS Integers, Sequences, FiniteSets, Bags, TLC

VARIABLES
    stock_daily,    \* the stock_daily table: a bag (multiset) of rows
    firstWritten,   \* history: key -> value of the first row save_data was given for it
    saveResult,     \* how the last save_data call ended
    conflicts,      \* history: kinds of key conflict the last save_data call met
    pro,            \* data_fetcher.pro: TRUE when TS_TOKEN gave an API client
    pc,             \* position of the backfill_data pass
    passNo,         \* number of passes started
    target_dates,   \* backfill_data: the window, as '%Y-%m-%d' strings
    existing_dates, \* backfill_data: result of the presence query, as strings
    missing_dates,  \* backfill_data: sorted list of missing dates
    idx,            \* backfill_data: index into missing_dates of the current date
    attempt,        \* fetch_daily_data: loop variable of the retry loop
    calls,          \* history: upstream calls made by the current fetch_daily_data
    lastResp,       \* history: how the last upstream call of the current fetch ended
    fetchLog,       \* history: arguments of fetch_daily_data in this pass, in order
    prevFetchLog,   \* history: fetchLog of the previous pass
    storeAtStart,   \* history: stock_daily when this pass started
    queryFailed,    \* history: the presence query of this pass raised
    exhausted,      \* history: dates whose fetch used up all attempts in this pass
    prevExhausted,  \* history: exhausted of the previous pass
    writeFailed,    \* history: dates whose bars save_data failed to write in this pass
    prevWriteFailed, \* history: writeFailed of the previous pass
    errorsUsed,     \* upstream errors injected so far
    dbFaultsUsed,   \* store faults injected so far
    frame,          \* run: the input DataFrame, grouped by ts_code, each group by date
    runPc,          \* run: position
    current_df,     \* run: the rows of the last trade date, with their indicators
    rowNo,          \* run: number of rows of current_df already scored
    scored,         \* history: ts_code -> the dict calculate_scores returned for it
    results,        \* run: the list of accepted records
    final_df,       \* run: the returned frame
    ALLOWED_CHAT_ID, \* main.ALLOWED_CHAT_ID: the TG_CHAT_ID setting, "" when it is not set
    corePc,         \* per run of core_logic: its position
    chat_id,        \* per run of core_logic: its chat_id argument
    passPc,         \* per run: position of its backfill_data call on the executor thread
    passMissing,    \* per run: missing dates its pass has still to fetch
    passRow,        \* per run: next row of the frame its pass is inserting
    pending,        \* per run: rows inserted by the open transaction of its pass
    committed,      \* history, per run: dates whose save_data call ended without error
    steps,          \* history, per run: the steps of core_logic that have ended
    window_df,      \* per run: the rows get_data returned
    strategy_out,   \* per run: what run_strategy returned
    sent,           \* history: messages and documents sent, as <<chat, kind>>
    csvFiles,       \* the results directory holds a csv file
    updates,        \* commands handled so far
    jobs,           \* firings of the daily job so far
    botFaults       \* faults injected so far

storeVars == <<stock_daily, firstWritten, saveResult, conflicts>>
passVars == <<pro, pc, passNo, target_dates, existing_dates, missing_dates, idx,
              attempt, calls, lastResp, fetchLog, prevFetchLog, storeAtStart,
              queryFailed, exhausted, prevExhausted, writeFailed, prevWriteFailed,
              errorsUsed, dbFaultsUsed>>

stratVars == <<frame, runPc, current_df, rowNo, scored, results, final_df>>

botVars == <<ALLOWED_CHAT_ID, corePc, chat_id, passPc, passMissing, passRow, pending,
             committed, steps, window_df, strategy_out, sent, csvFiles, updates, jobs,
             botFaults>>

----------------------------------------------------------------------------
(* Bounds of the model *)

\* longest DataFrame handed to save_data by SpecStore
MaxDfLen == 2
\* lookback_days of the modelled passes (the bot passes 200)
LookbackDays == 10
\* passes run in succession
MaxPasses == 2
\* upstream errors injected over a run
MaxUpstreamErrors == 3
\* store faults (failed presence query, failed write) injected over a run
MaxDbFaults == 1
\* lookback_days of the passes the bot starts (core_logic passes 200)
BotLookbackDays == 1
\* commands (/run, /last) handled
MaxUpdates == 2
\* firings of the daily job
MaxJobs == 1
\* faults injected while the bot runs
MaxBotFaults == 1

----------------------------------------------------------------------------
(* Data *)

\* end_date = datetime.now(), as a day number
Today == 26

Codes == {"A", "B"}
CodeSeq == <<"A", "B">>
\* the (open, high, low, close, vol) fields of a row, abstracted to one value
Vals == {1, 2}

Row(c, d, v) == [ts_code |-> c, trade_date |-> d, val |-> v]

\* the composite primary key of StockDaily
Key(r) == <<r.ts_code, r.trade_date>>

----------------------------------------------------------------------------
(* db_manager.py: the write path *)

HasKey(table, k) == \E r \in BagToSet(table) : Key(r) = k

\* INSERT of one row under ON CONFLICT DO UPDATE: the stored row is replaced
on_conflict_do_update(table, r) ==
    LET kept == {x \in BagToSet(table) : Key(x) # Key(r)}
    IN  [x \in kept \cup {r} |-> IF x = r THEN 1 ELSE table[x]]

\* INSERT of one row under ON CONFLICT (ts_code, trade_date) DO NOTHING
on_conflict_do_nothing(table, r) ==
    IF HasKey(table, Key(r)) THEN table ELSE table (+) SetToBag({r})

RECURSIVE InsertRows(_, _)
InsertRows(table, data) ==
    IF data = <<>> THEN table
    ELSE InsertRows(on_conflict_do_nothing(table, Head(data)), Tail(data))

\* the custom to_sql method: one INSERT ... VALUES statement per chunk
insert_on_conflict_nothing(table, data) ==
    IF data = <<>> THEN table ELSE InsertRows(table, data)

\* to_sql(chunksize=1000)
chunksize == 1000

RECURSIVE to_sql(_, _)
to_sql(table, df) ==
    IF df = <<>> THEN table
    ELSE LET n == IF Len(df) < chunksize THEN Len(df) ELSE chunksize
         IN  to_sql(insert_on_conflict_nothing(table, SubSeq(df, 1, n)),
                    SubSeq(df, n + 1, Len(df)))

\* a save_data that lets the exception of to_sql out
save_data_raising(table, df, dbOk) ==
    IF df = <<>> THEN [table |-> table, result |-> "empty"]
    ELSE IF dbOk THEN [table |-> to_sql(table, df), result |-> "ok"]
    ELSE [table |-> table, result |-> "raised"]

\* save_data(df): dbOk = FALSE is the store raising inside to_sql; the
\* transaction of to_sql is rolled back and the exception is caught and printed
save_data(table, df, dbOk) ==
    IF df = <<>> THEN [table |-> table, result |-> "empty"]
    ELSE IF dbOk THEN [table |-> to_sql(table, df), result |-> "ok"]
    ELSE [table |-> table, result |-> "caught"]

----------------------------------------------------------------------------
(* SpecStore: any sequence of save_data calls *)

\* the dates SpecStore writes
SaveDates == {Today - 1, Today}
SaveRows == {Row(c, d, v) : c \in Codes, d \in SaveDates, v \in Vals}
SaveKeys == Codes \X SaveDates
Dfs == UNION {[1..n -> SaveRows] : n \in 0..MaxDfLen}

KeysIn(df) == {Key(df[i]) : i \in 1..Len(df)}

\* value of the first row of df that carries key k, for k in KeysIn(df)
FirstIn(df, k) ==
    df[CHOOSE i \in 1..Len(df) :
            /\ Key(df[i]) = k
            /\ \A j \in 1..(i - 1) : Key(df[j]) # k].val

PassIdle ==
    /\ pc = "idle" /\ passNo = 0
    /\ target_dates = <<>> /\ existing_dates = {} /\ missing_dates = <<>>
    /\ idx = 0 /\ attempt = 0 /\ calls = 0 /\ lastResp = "none"
    /\ fetchLog = <<>> /\ prevFetchLog = <<>> /\ storeAtStart = EmptyBag
    /\ queryFailed = FALSE /\ exhausted = {} /\ prevExhausted = {}
    /\ writeFailed = {} /\ prevWriteFailed = {}
    /\ errorsUsed = 0 /\ dbFaultsUsed = 0

StoreIdle ==
    /\ firstWritten = [k \in {} |-> 1]
    /\ saveResult = "none"
    /\ conflicts = {}

\* the two places core_logic is started from: run_command and scheduled_task
Runs == {"manual", "scheduled"}

BotIdle ==
    /\ ALLOWED_CHAT_ID = ""
    /\ corePc = [r \in Runs |-> "idle"]
    /\ chat_id = [r \in Runs |-> ""]
    /\ passPc = [r \in Runs |-> "none"]
    /\ passMissing = [r \in Runs |-> <<>>]
    /\ passRow = [r \in Runs |-> 0]
    /\ pending = [r \in Runs |-> {}]
    /\ committed = [r \in Runs |-> {}]
    /\ steps = [r \in Runs |-> {}]
    /\ window_df = [r \in Runs |-> {}]
    /\ strategy_out = [r \in Runs |-> "none"]
    /\ sent = {}
    /\ csvFiles = FALSE
    /\ updates = 0
    /\ jobs = 0
    /\ botFaults = 0

StratIdle ==
    /\ frame = [c \in Codes |-> <<>>]
    /\ runPc = "idle"
    /\ current_df = <<>>
    /\ rowNo = 0
    /\ scored = [c \in Codes |-> <<>>]
    /\ results = <<>>
    /\ final_df = <<>>

InitStore ==
    /\ stock_daily = EmptyBag
    /\ StoreIdle
    /\ pro = TRUE
    /\ PassIdle
    /\ StratIdle
    /\ BotIdle

\* the kinds of conflict the rows of df meet, in order, on a table whose keys
\* were first written with the values fw: a row whose key was written before
\* (by an earlier call or an earlier row of df) with the same or other values
ConflictKinds(df, fw) ==
    LET before(i) == SubSeq(df, 1, i - 1)
        prior(i) == IF Key(df[i]) \in DOMAIN fw THEN {fw[Key(df[i])]}
                    ELSE IF Key(df[i]) \in KeysIn(before(i))
                         THEN {FirstIn(before(i), Key(df[i]))}
                    ELSE {}
    IN  {"same" : i \in {j \in 1..Len(df) : df[j].val \in prior(j)}}
        \cup {"different" : i \in {j \in 1..Len(df) : prior(j) \ {df[j].val} # {}}}

SaveData(df, dbOk) ==
    /\ LET r == save_data(stock_daily, df, dbOk)
       IN  /\ stock_daily' = r.table
           /\ saveResult' = r.result
           /\ firstWritten' =
                [k \in DOMAIN firstWritten \cup (IF r.result = "ok" THEN KeysIn(df) ELSE {}) |->
                    IF k \in DOMAIN firstWritten THEN firstWritten[k] ELSE FirstIn(df, k)]
    /\ conflicts' = IF dbOk THEN ConflictKinds(df, firstWritten) ELSE {}
    /\ UNCHANGED <<passVars, stratVars, botVars>>

NextStore == \E df \in Dfs, dbOk \in BOOLEAN : SaveData(df, dbOk)

----------------------------------------------------------------------------
(* data_fetcher.py: dates and their string forms *)

\* strftime('%Y-%m-%d') of a timestamp of day d
strftime(d) == [fmt |-> "%Y-%m-%d", day |-> d]

\* astype(str) of a stored trade_date (a datetime.date)
astype_str(d) == [fmt |-> "%Y-%m-%d", day |-> d]

\* date_str.replace("-", "")
replace_dash(s) ==
    IF s.fmt = "%Y-%m-%d" THEN [fmt |-> "%Y%m%d", day |-> s.day] ELSE s

\* pd.to_datetime of a date string
to_datetime(s) == s.day

\* start_date = end_date - timedelta(days=lookback_days)
start_date == Today - LookbackDays

\* pd.date_range(start=start_date, end=end_date).strftime('%Y-%m-%d').tolist()
date_range_str ==
    [i \in 1..(Today - start_date + 1) |-> strftime(start_date + i - 1)]

WindowDays == start_date..Today

\* lexicographic order of '%Y-%m-%d' strings is the order of their days
StrLess(a, b) == a.day < b.day

RECURSIVE InsertSorted(_, _)
InsertSorted(x, s) ==
    IF s = <<>> THEN <<x>>
    ELSE IF StrLess(x, Head(s)) THEN <<x>> \o s
    ELSE <<Head(s)>> \o InsertSorted(x, Tail(s))

\* list.sort()
RECURSIVE sort(_)
sort(s) == IF s = <<>> THEN <<>> ELSE InsertSorted(Head(s), sort(Tail(s)))

\* SELECT DISTINCT trade_date FROM stock_daily WHERE trade_date >= start_date,
\* then astype(str)
presence_query(table) ==
    {astype_str(r.trade_date) : r \in {x \in BagToSet(table) : x.trade_date >= start_date}}

\* [d for d in target_dates if d not in existing_set] read against the rows
\* themselves, whatever the query returned
missing_of(targets, existing) ==
    LET keep(d) == d \notin existing IN sort(SelectSeq(targets, keep))

----------------------------------------------------------------------------
(* The upstream feed *)

\* the exchange is closed on two days of every seven
IsTradingDay(d) == d % 7 \notin {5, 6}

\* pro.daily(trade_date=ts_date) when it answers: one bar per instrument on a
\* trading day, an empty frame otherwise
pro_daily(ts_date) ==
    IF ts_date.fmt = "%Y%m%d" /\ IsTradingDay(ts_date.day)
    THEN [i \in 1..Len(CodeSeq) |->
            [ts_code |-> CodeSeq[i], trade_date |-> ts_date, val |-> 2]]
    ELSE <<>>

\* df['trade_date'] = pd.to_datetime(df['trade_date']) and the column selection
to_bars(df) ==
    [i \in 1..Len(df) |-> Row(df[i].ts_code, to_datetime(df[i].trade_date), df[i].val)]

\* a retry loop that runs once more than max_retries = 3
max_retries_plus_one == 3 + 1

\* max_retries = 3
max_retries == 3

----------------------------------------------------------------------------
(* Spec: backfill_data passes *)

\* rows an earlier run left in the table: both instruments on D-10, D-8, D-5
SeededStore ==
    SetToBag({Row(c, d, 1) : c \in Codes, d \in {Today - 10, Today - 8, Today - 5}})

InitialStores == {EmptyBag, SeededStore}

Init ==
    /\ stock_daily \in InitialStores
    /\ StoreIdle
    /\ pro \in BOOLEAN
    /\ PassIdle
    /\ StratIdle
    /\ BotIdle

curDate == missing_dates[idx]
curTs == replace_dash(curDate)

\* time.sleep(0.5), then the next iteration of "for date_str in missing_dates"
NextDate ==
    IF idx < Len(missing_dates)
    THEN /\ idx' = idx + 1
         /\ pc' = "fetch"
    ELSE /\ idx' = idx
         /\ pc' = "done"

\* the last attempt failed and the exception escapes fetch_daily_data
GiveUpRaises ==
    /\ idx' = idx
    /\ pc' = "raised"

\* the last attempt failed: "Failed to fetch ... after 3 attempts" is printed, the
\* retry loop ends and fetch_daily_data returns to the loop of backfill_data
GiveUp == NextDate

\* backfill_data is called: the window is computed
StartPass ==
    /\ pc \in {"idle", "done"}
    /\ passNo < MaxPasses
    /\ passNo' = passNo + 1
    /\ target_dates' = date_range_str
    /\ pc' = "query"
    /\ storeAtStart' = stock_daily
    /\ prevFetchLog' = fetchLog
    /\ fetchLog' = <<>>
    /\ existing_dates' = {}
    /\ missing_dates' = <<>>
    /\ idx' = 0 /\ attempt' = 0 /\ calls' = 0 /\ lastResp' = "none"
    /\ queryFailed' = FALSE
    /\ exhausted' = {}
    /\ prevExhausted' = exhausted
    /\ writeFailed' = {}
    /\ prevWriteFailed' = writeFailed
    /\ UNCHANGED <<storeVars, stratVars, botVars, pro, errorsUsed, dbFaultsUsed>>

\* the rest of backfill_data up to the loop, given the presence query's result
AfterQuery(existing) ==
    /\ existing_dates' = existing
    /\ missing_dates' = missing_of(target_dates, existing)
    /\ IF missing_of(target_dates, existing) = <<>>
       THEN pc' = "done" /\ idx' = 0
       ELSE pc' = "fetch" /\ idx' = 1
    /\ UNCHANGED <<storeVars, stratVars, botVars, pro, passNo, target_dates, attempt, calls, lastResp,
                   fetchLog, prevFetchLog, storeAtStart, exhausted, prevExhausted,
                   writeFailed, prevWriteFailed, errorsUsed>>

\* pd.read_sql answers
QueryOk ==
    /\ pc = "query"
    /\ AfterQuery(presence_query(stock_daily))
    /\ UNCHANGED <<queryFailed, dbFaultsUsed>>

\* pd.read_sql raises: "DB Read Error ..., assuming empty"
QueryFails ==
    /\ pc = "query"
    /\ dbFaultsUsed < MaxDbFaults
    /\ dbFaultsUsed' = dbFaultsUsed + 1
    /\ queryFailed' = TRUE
    /\ AfterQuery({})

\* fetch_daily_data(ts_date) is entered; without an API client it returns at once
BeginFetch ==
    /\ pc = "fetch"
    /\ fetchLog' = Append(fetchLog, curTs)
    /\ calls' = 0
    /\ lastResp' = "none"
    /\ attempt' = 0
    /\ IF pro THEN pc' = "attempt" /\ idx' = idx ELSE NextDate
    /\ UNCHANGED <<storeVars, stratVars, botVars, pro, passNo, target_dates, existing_dates, missing_dates,
                   prevFetchLog, storeAtStart, queryFailed, exhausted, prevExhausted,
                   writeFailed, prevWriteFailed, errorsUsed, dbFaultsUsed>>

\* "except Exception" of the retry loop: wait 5 seconds and go round again, or
\* give up after the last attempt
ExceptClause ==
    IF attempt < max_retries - 1
    THEN /\ attempt' = attempt + 1
         /\ UNCHANGED <<pc, idx, exhausted>>
    ELSE /\ attempt' = attempt
         /\ exhausted' = exhausted \cup {curTs.day}
         /\ GiveUp

\* pro.daily raises: retry after 5 seconds, or give up after the last attempt
UpstreamError ==
    /\ pc = "attempt"
    /\ errorsUsed < MaxUpstreamErrors
    /\ errorsUsed' = errorsUsed + 1
    /\ calls' = calls + 1
    /\ lastResp' = "error"
    /\ ExceptClause
    /\ UNCHANGED <<storeVars, stratVars, botVars, pro, passNo, target_dates, existing_dates, missing_dates,
                   fetchLog, prevFetchLog, storeAtStart, queryFailed, prevExhausted,
                   writeFailed, prevWriteFailed, dbFaultsUsed>>

\* pro.daily answers with an empty frame: return, no retry
UpstreamEmpty ==
    /\ pc = "attempt"
    /\ pro_daily(curTs) = <<>>
    /\ calls' = calls + 1
    /\ lastResp' = "empty"
    /\ NextDate
    /\ UNCHANGED <<storeVars, stratVars, botVars, pro, passNo, target_dates, existing_dates, missing_dates,
                   attempt, fetchLog, prevFetchLog, storeAtStart, queryFailed, exhausted,
                   prevExhausted, writeFailed, prevWriteFailed, errorsUsed, dbFaultsUsed>>

\* pro.daily answers with bars: convert, save_data, return.  save_data is
\* called inside the try block: an exception leaving it would reach the except
\* clause of the retry loop
UpstreamData(dbOk) ==
    /\ pc = "attempt"
    /\ pro_daily(curTs) # <<>>
    /\ dbOk \/ dbFaultsUsed < MaxDbFaults
    /\ dbFaultsUsed' = IF dbOk THEN dbFaultsUsed ELSE dbFaultsUsed + 1
    /\ calls' = calls + 1
    /\ lastResp' = "data"
    /\ LET r == save_data(stock_daily, to_bars(pro_daily(curTs)), dbOk)
       IN  /\ stock_daily' = r.table
           /\ saveResult' = r.result
           /\ writeFailed' = IF r.result \in {"caught", "raised"}
                             THEN writeFailed \cup {curTs.day} ELSE writeFailed
           /\ IF r.result = "raised"
              THEN ExceptClause
              ELSE /\ NextDate
                   /\ UNCHANGED <<attempt, exhausted>>
    /\ UNCHANGED <<firstWritten, conflicts, stratVars, botVars, pro, passNo, target_dates, existing_dates,
                   missing_dates, fetchLog, prevFetchLog, storeAtStart,
                   queryFailed, prevExhausted, prevWriteFailed, errorsUsed>>

Next ==
    \/ StartPass
    \/ QueryOk
    \/ QueryFails
    \/ BeginFetch
    \/ UpstreamError
    \/ UpstreamEmpty
    \/ \E dbOk \in BOOLEAN : UpstreamData(dbOk)

vars == <<storeVars, passVars, stratVars, botVars>>

Spec == Init /\ [][Next]_vars

SpecStore == InitStore /\ [][NextStore]_vars

----------------------------------------------------------------------------
(* strategy.py: numbers *)

\* Prices are integers in 1/100, volumes are integers.  A float the code gets
\* by division is kept as the exact fraction n/d with d > 0; NaN has d = 0.
\* Every comparison with NaN is false, as in Python.
Q(x) == [n |-> x, d |-> 1]
NaN == [n |-> 0, d |-> 0]
isnull(q) == q.d = 0
notnull(q) == q.d # 0
Lt(a, b) == notnull(a) /\ notnull(b) /\ a.n * b.d < b.n * a.d
Le(a, b) == notnull(a) /\ notnull(b) /\ a.n * b.d <= b.n * a.d
Ge(a, b) == Le(b, a)
Gt(a, b) == Lt(b, a)
Tenths(k) == [n |-> k, d |-> 10]

\* the value of q printed with p decimals, in units of 10^-p (half rounds up)
RoundTo(q, scale) == ((2 * q.n * scale) + q.d) \div (2 * q.d)

RECURSIVE SumN(_, _, _)
SumN(s, lo, hi) == IF lo > hi THEN 0 ELSE s[hi].n + SumN(s, lo, hi - 1)

\* x.rolling(w).mean() at position i: NaN until the window holds w values
\* (the series the code averages have one denominator)
rolling_mean(s, w, i) ==
    IF i < w \/ \E j \in (i - w + 1)..i : isnull(s[j]) THEN NaN
    ELSE [n |-> SumN(s, i - w + 1, i), d |-> s[i].d * w]

\* x.rolling(w).min() at position i
rolling_min(s, w, i) ==
    IF i < w \/ \E j \in (i - w + 1)..i : isnull(s[j]) THEN NaN
    ELSE s[CHOOSE j \in (i - w + 1)..i : \A k \in (i - w + 1)..i : Le(s[j], s[k])]

\* x.shift(1)
shift(s) == [j \in 1..Len(s) |-> IF j = 1 THEN NaN ELSE s[j - 1]]

----------------------------------------------------------------------------
(* strategy.py: calculate_indicators, per ts_code group x (sorted by date) *)

close_col(x) == [j \in 1..Len(x) |-> Q(x[j].close)]
volume_col(x) == [j \in 1..Len(x) |-> Q(x[j].vol)]

\* (high - low) / low * 100, kept to four decimals of a percent
amplitude(bar) == [n |-> ((bar.high - bar.low) * 1000000) \div bar.low, d |-> 10000]
amplitude_col(x) == [j \in 1..Len(x) |-> amplitude(x[j])]

\* a 60-bar window that ends one bar after the current one when there is one
ma_60_lookahead(x, i) == rolling_mean(close_col(x), 60, IF i < Len(x) THEN i + 1 ELSE i)

\* df.groupby('ts_code')['close'].transform(lambda x: x.rolling(60).mean())
ma_60(x, i) == rolling_mean(close_col(x), 60, i)
vol_ma20(x, i) == rolling_mean(volume_col(x), 20, i)
\* the minimum over the 20 bars that end with the current one (no shift)
vol_min_20_unshifted(x, i) == rolling_min(volume_col(x), 20, i)

\* x.shift(1).rolling(20).min() per ts_code group
prev_vol_min_20(x, i) == rolling_min(shift(volume_col(x)), 20, i)
amp_ma15(x, i) == rolling_mean(amplitude_col(x), 15, i)

\* x.pct_change() * 100
pct_change(x, i) ==
    IF i = 1 THEN NaN
    ELSE [n |-> (x[i].close - x[i - 1].close) * 100, d |-> x[i - 1].close]

\* (close - ma_60) / ma_60 * 100 with ma_60 = S / 60
distance_ma60(x, i) ==
    LET ma == ma_60(x, i)
    IN  IF isnull(ma) THEN NaN
        ELSE [n |-> (60 * x[i].close - ma.n) * 100, d |-> ma.n]

\* volume / vol_ma20 with vol_ma20 = S / 20 (not a number when S = 0)
vol_ratio(x, i) ==
    LET ma == vol_ma20(x, i)
    IN  IF isnull(ma) \/ ma.n = 0 THEN NaN
        ELSE [n |-> 20 * x[i].vol, d |-> ma.n]

\* row i of the group of ts_code c in the frame calculate_indicators returns
IndRow(c, x, i) ==
    [ts_code |-> c, trade_date |-> x[i].trade_date,
     open |-> x[i].open, high |-> x[i].high, low |-> x[i].low, close |-> x[i].close,
     vol |-> x[i].vol, volume |-> x[i].vol,
     ma_60 |-> ma_60(x, i), vol_ma20 |-> vol_ma20(x, i),
     prev_vol_min_20 |-> prev_vol_min_20(x, i),
     amplitude |-> amplitude(x[i]), amp_ma15 |-> amp_ma15(x, i),
     pct_change |-> pct_change(x, i), distance_ma60 |-> distance_ma60(x, i),
     vol_ratio |-> vol_ratio(x, i)]

----------------------------------------------------------------------------
(* strategy.py: calculate_scores *)

\* self.params = {'min_score': 60}
min_score == 60

\* a first gate that lets a bar with close = open through
not_green_strict(row) == row.close > row.open

\* gate 1: row['close'] >= row['open']
not_green(row) == row.close >= row.open

\* a volume gate at half of the prior minimum
limit_vol_half(row) == [n |-> row.prev_vol_min_20.n * 5, d |-> row.prev_vol_min_20.d * 10]

\* limit_vol = row['prev_vol_min_20'] * 0.8
limit_vol(row) == [n |-> row.prev_vol_min_20.n * 8, d |-> row.prev_vol_min_20.d * 10]

\* ratio = row['volume'] / row['prev_vol_min_20']
ratio_of(row) == [n |-> row.volume * row.prev_vol_min_20.d, d |-> row.prev_vol_min_20.n]

vol_score_of(row) ==
    IF Le(ratio_of(row), Tenths(5)) THEN 40
    ELSE IF Le(ratio_of(row), Tenths(6)) THEN 38
    ELSE IF Le(ratio_of(row), Tenths(7)) THEN 35
    ELSE 30

drop_score_of(row) ==
    LET pct == row.pct_change
    IN  IF Le(Q(-2), pct) /\ Lt(pct, Q(0)) THEN 10
        ELSE IF Le(Q(-4), pct) /\ Lt(pct, Q(-2)) THEN 8
        ELSE IF Lt(pct, Q(-4)) THEN 5
        ELSE 0

\* a trend score that gives 20 points to a close 10% or more below ma_60
trend_score_generous(row) ==
    LET dist == row.distance_ma60
        abs_dist == [n |-> IF dist.n < 0 THEN -dist.n ELSE dist.n, d |-> dist.d]
    IN  IF notnull(dist)
        THEN IF Lt(dist, Q(0))
             THEN IF Ge(abs_dist, Q(10)) THEN 20
                  ELSE IF Ge(abs_dist, Q(5)) THEN 12
                  ELSE 8
             ELSE 10
        ELSE 0

trend_score_of(row) ==
    LET dist == row.distance_ma60
        abs_dist == [n |-> IF dist.n < 0 THEN -dist.n ELSE dist.n, d |-> dist.d]
    IN  IF notnull(dist)
        THEN IF Lt(dist, Q(0))
             THEN IF Ge(abs_dist, Q(10)) THEN 15
                  ELSE IF Ge(abs_dist, Q(5)) THEN 12
                  ELSE 8
             ELSE 10
        ELSE 0

volatility_score_of(row) ==
    IF notnull(row.amp_ma15)
    THEN IF Lt(row.amp_ma15, Q(3)) THEN 10
         ELSE IF Lt(row.amp_ma15, Tenths(45)) THEN 6
         ELSE 3
    ELSE 0

\* prices are in 1/100: 3 < close <= 30, 30 < close <= 80
price_score_of(row) ==
    IF 300 < row.close /\ row.close <= 3000 THEN 10
    ELSE IF 3000 < row.close /\ row.close <= 8000 THEN 5
    ELSE 0

extra_score_of(row) ==
    LET absdiff == IF row.close >= row.open THEN row.close - row.open
                   ELSE row.open - row.close
        body_size == [n |-> absdiff * 100, d |-> row.open]
        lowest == IF row.open < row.close THEN row.open ELSE row.close
        lower_shadow == [n |-> (lowest - row.low) * 100, d |-> row.low]
        extra_score == (IF Lt(body_size, Q(1)) THEN 5 ELSE 0)
                       + (IF Gt(lower_shadow, Tenths(15)) THEN 5 ELSE 0)
                       + (IF Lt(row.vol_ratio, Tenths(6)) THEN 5 ELSE 0)
    IN  IF extra_score < 15 THEN extra_score ELSE 15

\* the dict calculate_scores returns.  Keys: total = '总分', reason = '淘汰原因',
\* vol_score = '最低量分', drop_score = '下跌分', core = '核心条件分',
\* trend_score = '趋势分', volatility_score = '波动分', price_score = '价格分',
\* extra = '额外分'
calculate_scores(row) ==
    IF not_green(row)
    THEN [total |-> 0, reason |-> "not green"]
    ELSE IF isnull(row.prev_vol_min_20)
    THEN [total |-> 0]
    ELSE IF Ge(Q(row.volume), limit_vol(row))
    THEN [total |-> 0, reason |-> "volume not at extreme shrink"]
    ELSE LET core == vol_score_of(row) + drop_score_of(row)
             sum  == core + trend_score_of(row) + volatility_score_of(row)
                     + price_score_of(row) + extra_score_of(row)
         IN  [vol_score |-> vol_score_of(row),
              drop_score |-> drop_score_of(row),
              core |-> core,
              trend_score |-> trend_score_of(row),
              volatility_score |-> volatility_score_of(row),
              price_score |-> price_score_of(row),
              extra |-> extra_score_of(row),
              total |-> IF sum < 100 THEN sum ELSE 100,
              ratio_val |-> ratio_of(row)]

\* a threshold test that drops a record scoring exactly min_score
exceeds_min_score(scores) == scores.total > min_score

\* scores['总分'] >= self.params['min_score']
meets_min_score(scores) == scores.total >= min_score

----------------------------------------------------------------------------
(* SpecStrategy: WeightedScoringStrategy.run *)

\* longest history of the frames
MaxBars == 71

BarCounts == {0, 1, 20, 21, 59, 60, 69, 70, MaxBars}

\* a quiet bar k days before the last one of its group
BaseBar(date, k) ==
    [trade_date |-> date, open |-> 1000, high |-> 1010, low |-> 1000, close |-> 1000,
     vol |-> 1000 + 50 * (k % 7)]

\* the shapes of a group's latest bar
LastBars ==
    { [open |-> 790, high |-> 805, low |-> 780, close |-> 800, vol |-> 400],
      [open |-> 800, high |-> 805, low |-> 780, close |-> 800, vol |-> 400],
      [open |-> 810, high |-> 815, low |-> 780, close |-> 800, vol |-> 400],
      [open |-> 9000, high |-> 9000, low |-> 8990, close |-> 8990, vol |-> 790],
      [open |-> 810, high |-> 815, low |-> 780, close |-> 800, vol |-> 800],
      [open |-> 1005, high |-> 1005, low |-> 985, close |-> 990, vol |-> 750] }

\* a group of n bars on consecutive days that ends on day last with the bar lb
MakeSeries(n, last, lb) ==
    [j \in 1..n |->
        IF j < n THEN BaseBar(last - (n - j), n - j)
        ELSE [trade_date |-> last, open |-> lb.open, high |-> lb.high, low |-> lb.low,
              close |-> lb.close, vol |-> lb.vol]]

\* groups end today or the day before
AllSeries ==
    {MakeSeries(n, Today - st, lb) : n \in BarCounts, st \in {0, 1}, lb \in LastBars}

InitStrategy ==
    /\ stock_daily = EmptyBag
    /\ StoreIdle
    /\ pro = TRUE
    /\ PassIdle
    /\ BotIdle
    /\ frame \in [Codes -> AllSeries]
    /\ runPc = "start"
    /\ current_df = <<>>
    /\ rowNo = 0
    /\ scored = [c \in {} |-> 0]
    /\ results = <<>>
    /\ final_df = <<>>

\* df.empty
FrameEmpty(df) == \A c \in Codes : df[c] = <<>>

FrameDates(df) == UNION {{df[c][j].trade_date : j \in 1..Len(df[c])} : c \in Codes}

\* df['trade_date'].max()
last_date(df) ==
    LET dates == FrameDates(df)
    IN  CHOOSE d \in dates : \A e \in dates : e <= d

\* the groups of the first k instruments, one after the other
RECURSIVE FlatUpTo(_, _)
FlatUpTo(df, k) == IF k = 0 THEN <<>> ELSE FlatUpTo(df, k - 1) \o df[CodeSeq[k]]

\* the rows of the last date when the rolling windows run over the whole sorted
\* frame instead of over each ts_code group
RECURSIVE CurrentRows_ungrouped(_, _, _)
CurrentRows_ungrouped(df, codes, d) ==
    IF codes = <<>> THEN <<>>
    ELSE LET c == Head(codes)
             k == CHOOSE n \in 1..Len(CodeSeq) : CodeSeq[n] = c
             hit == {j \in 1..Len(df[c]) : df[c][j].trade_date = d}
             rows == IF hit = {} THEN <<>>
                     ELSE <<IndRow(c, FlatUpTo(df, k),
                                   Len(FlatUpTo(df, k - 1)) + (CHOOSE j \in hit : TRUE))>>
         IN  rows \o CurrentRows_ungrouped(df, Tail(codes), d)

\* df[df['trade_date'] == last_date], in the order of the sorted frame
RECURSIVE CurrentRows(_, _, _)
CurrentRows(df, codes, d) ==
    IF codes = <<>> THEN <<>>
    ELSE LET c == Head(codes)
             hit == {j \in 1..Len(df[c]) : df[c][j].trade_date = d}
             rows == IF hit = {} THEN <<>>
                     ELSE <<IndRow(c, df[c], CHOOSE j \in hit : TRUE)>>
         IN  rows \o CurrentRows(df, Tail(codes), d)

\* run up to the scoring loop
RunStart ==
    /\ runPc = "start"
    /\ IF FrameEmpty(frame)
       THEN /\ runPc' = "done"
            /\ current_df' = <<>>
       ELSE LET cur == CurrentRows(frame, CodeSeq, last_date(frame))
            IN  /\ current_df' = cur
                /\ runPc' = IF cur = <<>> THEN "done" ELSE "scoring"
    /\ UNCHANGED <<storeVars, passVars, botVars, frame, rowNo, scored, results, final_df>>

\* one iteration of "for idx, row in current_df.iterrows()"
ScoreRow ==
    /\ runPc = "scoring"
    /\ rowNo < Len(current_df)
    /\ LET row == current_df[rowNo + 1]
           scores == calculate_scores(row)
       IN  /\ scored' = (row.ts_code :> scores) @@ scored
           /\ results' = IF meets_min_score(scores)
                         THEN Append(results, scores @@ row)
                         ELSE results
    /\ rowNo' = rowNo + 1
    /\ UNCHANGED <<storeVars, passVars, botVars, frame, runPc, current_df, final_df>>

\* the 'reason' column: score, ratio with 2 decimals, pct_change with 1 decimal
reason_of(x) ==
    [score |-> x.total, ratio |-> RoundTo(x.ratio_val, 100),
     pct |-> RoundTo(x.pct_change, 10)]

\* the orders sort_values('总分', ascending=False) can leave the records in
SortedByTotal(recs) ==
    {p \in [1..Len(recs) -> 1..Len(recs)] :
        /\ \A i, j \in 1..Len(recs) : i # j => p[i] # p[j]
        /\ \A i, j \in 1..Len(recs) : i < j => recs[p[i]].total >= recs[p[j]].total}

\* the end of run: empty result, or sort and add the reason column
RunFinish ==
    /\ runPc = "scoring"
    /\ rowNo = Len(current_df)
    /\ IF results = <<>>
       THEN final_df' = <<>>
       ELSE \E p \in SortedByTotal(results) :
                final_df' = [i \in 1..Len(results) |->
                                ("reason" :> reason_of(results[p[i]])) @@ results[p[i]]]
    /\ runPc' = "done"
    /\ UNCHANGED <<storeVars, passVars, botVars, frame, current_df, rowNo, scored, results>>

NextStrategy ==
    \/ RunStart
    \/ ScoreRow
    \/ RunFinish

SpecStrategy == InitStrategy /\ [][NextStrategy]_vars

----------------------------------------------------------------------------
(* SpecFrames: run on a smaller family of frames, for the claims that compare *)
(* the run on one frame with the run on another                              *)

FrameBarCounts == {0, 19, 20, 21, 60, MaxBars}

FrameLastBars ==
    { [open |-> 790, high |-> 805, low |-> 780, close |-> 800, vol |-> 400],
      [open |-> 810, high |-> 815, low |-> 780, close |-> 800, vol |-> 400],
      [open |-> 9000, high |-> 9000, low |-> 8990, close |-> 8990, vol |-> 790] }

FrameSeries ==
    {MakeSeries(n, Today - st, lb) : n \in FrameBarCounts, st \in {0, 1}, lb \in FrameLastBars}

InitFrames ==
    /\ stock_daily = EmptyBag
    /\ StoreIdle
    /\ pro = TRUE
    /\ PassIdle
    /\ BotIdle
    /\ frame \in [Codes -> FrameSeries]
    /\ runPc = "start"
    /\ current_df = <<>>
    /\ rowNo = 0
    /\ scored = [c \in {} |-> 0]
    /\ results = <<>>
    /\ final_df = <<>>

SpecFrames == InitFrames /\ [][NextStrategy]_vars

----------------------------------------------------------------------------
(* SpecScores: calculate_scores, and the threshold of run, on single rows *)

\* latest bars: green with a long lower shadow, green with a small body, green
\* with a small body and a long lower shadow, red, flat, and green bars at the
\* edges of the price bands (3, 30, 80)
ScoreBars ==
    { [open |-> 810, high |-> 815, low |-> 780, close |-> 800],
      [open |-> 805, high |-> 806, low |-> 799, close |-> 800],
      [open |-> 805, high |-> 810, low |-> 780, close |-> 800],
      [open |-> 790, high |-> 805, low |-> 780, close |-> 800],
      [open |-> 800, high |-> 805, low |-> 780, close |-> 800],
      [open |-> 301, high |-> 301, low |-> 300, close |-> 300],
      [open |-> 3010, high |-> 3010, low |-> 3000, close |-> 3000],
      [open |-> 8010, high |-> 8010, low |-> 8000, close |-> 8000],
      [open |-> 9000, high |-> 9000, low |-> 8990, close |-> 8990] }

\* volume of the latest bar
ScoreVolume == 400

\* the row calculate_indicators leaves for the latest bar of a group whose
\* history is short (at most 20 earlier bars: no prev_vol_min_20), mid (no
\* ma_60) or long.  m: least volume of the 20 earlier bars, p: pct_change,
\* ma: ma_60 in 1/100, amp: amp_ma15, vr: vol_ratio
MakeRow(bar, hist, m, p, ma, amp, vr) ==
    [ts_code |-> "A", trade_date |-> Today,
     open |-> bar.open, high |-> bar.high, low |-> bar.low, close |-> bar.close,
     vol |-> ScoreVolume, volume |-> ScoreVolume,
     ma_60 |-> IF hist = "long" THEN [n |-> 60 * ma, d |-> 60] ELSE NaN,
     vol_ma20 |-> [n |-> ScoreVolume * vr.d, d |-> vr.n],
     prev_vol_min_20 |-> IF hist = "short" THEN NaN ELSE Q(m),
     amplitude |-> amplitude(bar),
     amp_ma15 |-> amp,
     pct_change |-> Q(p),
     distance_ma60 |-> IF hist = "long" THEN [n |-> (bar.close - ma) * 100, d |-> ma]
                       ELSE NaN,
     vol_ratio |-> vr]

\* the 19 bars before the latest one are in the window of vol_ma20 and of
\* prev_vol_min_20: their volumes, 20 * vol_ma20 - volume in sum, are each at
\* least m
VolumesAgree(m, vr) == 19 * m * vr.n <= 20 * ScoreVolume * vr.d - ScoreVolume * vr.n

ScoreRows ==
    {MakeRow(bar, "short", 800, p, 1000, Q(2), Tenths(5)) :
        bar \in ScoreBars, p \in {-1, 1}}
    \cup
    {MakeRow(t[1], t[2], t[3], t[4], t[5], t[6], t[7]) :
        t \in {u \in ScoreBars \X {"mid", "long"} \X {500, 520, 600, 700, 800}
                       \X {-5, -4, -3, -2, -1, 0, 1} \X {760, 800, 840, 850, 1000}
                       \X {Q(2), Q(3), Tenths(45), Q(6)} \X {Tenths(5), Tenths(6)} :
                  VolumesAgree(u[3], u[7])}}

InitScores ==
    /\ stock_daily = EmptyBag
    /\ StoreIdle
    /\ pro = TRUE
    /\ PassIdle
    /\ BotIdle
    /\ frame = [c \in Codes |-> <<>>]
    /\ runPc = "scoring"
    /\ current_df \in {<<row>> : row \in ScoreRows}
    /\ rowNo = 0
    /\ scored = [c \in {} |-> 0]
    /\ results = <<>>
    /\ final_df = <<>>

NextScores ==
    \/ ScoreRow
    \/ RunFinish

SpecScores == InitScores /\ [][NextScores]_vars

----------------------------------------------------------------------------
(* main.py: the bot.  Commands are handled one after the other; the daily   *)
(* job runs as a task of its own, so a manual run and the scheduled run can *)
(* overlap.  Each run of core_logic awaits backfill_data on an executor      *)
(* thread; the passes of two runs share the stock_daily table.              *)

\* update.effective_chat.id of the chats that write to the bot
Chats == {100, 200}

\* str(update.effective_chat.id)
str(id) == IF id = 100 THEN "100" ELSE "200"

\* the settings of TG_CHAT_ID: not set, or the id of the owner's chat
ChatIdSettings == {"", "100"}

OtherRun(r) == CHOOSE o \in Runs : o # r

\* the window of backfill_data(lookback_days)
BotWindow == (Today - BotLookbackDays)..Today

\* the ascending list of the days of a set
RECURSIVE DaysAscending(_)
DaysAscending(S) ==
    IF S = {} THEN <<>>
    ELSE LET d == CHOOSE x \in S : \A y \in S : x <= y
         IN  <<d>> \o DaysAscending(S \ {d})

\* missing_dates of a pass whose presence query returned the days existing
BotMissing(existing) == DaysAscending(BotWindow \ existing)

\* the frame fetch_daily_data hands to save_data for day d
BarsOf(d) == to_bars(pro_daily(replace_dash(strftime(d))))

\* a row-by-row duplicate check that does not see the rows of a transaction
\* that has not committed yet (a table without the primary key)
insert_outcome_unlocked(table, own, other, x) ==
    IF HasKey(table, Key(x)) \/ \E y \in own : Key(y) = Key(x) THEN "skip"
    ELSE "insert"

\* INSERT ... ON CONFLICT (ts_code, trade_date) DO NOTHING of row x against the
\* primary key of StockDaily: the committed table, the rows of the own
\* transaction, and the rows another open transaction has inserted (the
\* statement waits for that transaction to end)
insert_outcome(table, own, other, x) ==
    IF HasKey(table, Key(x)) \/ \E y \in own : Key(y) = Key(x) THEN "skip"
    ELSE IF \E y \in other : Key(y) = Key(x) THEN "wait"
    ELSE "insert"

\* the loop of backfill_data goes on to the next missing date, or ends
PassNextDate(r) ==
    /\ passMissing' = [passMissing EXCEPT ![r] = Tail(@)]
    /\ passPc' = [passPc EXCEPT ![r] = IF Tail(passMissing[r]) = <<>> THEN "done" ELSE "fetch"]
    /\ passRow' = [passRow EXCEPT ![r] = 0]

coreVars == <<ALLOWED_CHAT_ID, corePc, chat_id, steps, window_df, strategy_out, sent,
              csvFiles, updates, jobs>>

\* backfill_data up to its loop: the presence query answers, or raises and the
\* pass goes on "assuming empty"
PassQuery(r, queryOk) ==
    /\ passPc[r] = "query"
    /\ queryOk \/ botFaults < MaxBotFaults
    /\ botFaults' = IF queryOk THEN botFaults ELSE botFaults + 1
    /\ LET existing == IF queryOk
                       THEN {x.trade_date : x \in {y \in BagToSet(stock_daily) :
                                                      y.trade_date >= Today - BotLookbackDays}}
                       ELSE {}
       IN  /\ passMissing' = [passMissing EXCEPT ![r] = BotMissing(existing)]
           /\ passPc' = [passPc EXCEPT ![r] =
                            IF BotMissing(existing) = <<>> THEN "done" ELSE "fetch"]
    /\ UNCHANGED <<storeVars, passVars, stratVars, coreVars, passRow, pending, committed>>

\* fetch_daily_data of the next missing date, up to save_data: the upstream
\* answers with bars (to_sql opens its transaction) or with an empty frame
PassFetch(r) ==
    /\ passPc[r] = "fetch"
    /\ IF BarsOf(Head(passMissing[r])) # <<>>
       THEN /\ passPc' = [passPc EXCEPT ![r] = "insert"]
            /\ passRow' = [passRow EXCEPT ![r] = 1]
            /\ UNCHANGED passMissing
       ELSE PassNextDate(r)
    /\ UNCHANGED <<storeVars, passVars, stratVars, coreVars, pending, committed, botFaults>>

\* fetch_daily_data of the next missing date fails on all its attempts
PassFetchGivesUp(r) ==
    /\ passPc[r] = "fetch"
    /\ botFaults < MaxBotFaults
    /\ botFaults' = botFaults + 1
    /\ PassNextDate(r)
    /\ UNCHANGED <<storeVars, passVars, stratVars, coreVars, pending, committed>>

\* the INSERT of one row of the frame
PassInsert(r) ==
    /\ passPc[r] = "insert"
    /\ passRow[r] <= Len(BarsOf(Head(passMissing[r])))
    /\ LET x == BarsOf(Head(passMissing[r]))[passRow[r]]
           outcome == insert_outcome(stock_daily, pending[r], pending[OtherRun(r)], x)
       IN  /\ outcome # "wait"
           /\ pending' = [pending EXCEPT ![r] = IF outcome = "insert" THEN @ \cup {x} ELSE @]
    /\ passRow' = [passRow EXCEPT ![r] = @ + 1]
    /\ UNCHANGED <<storeVars, passVars, stratVars, coreVars, passPc, passMissing, committed,
                   botFaults>>

\* to_sql commits; save_data and fetch_daily_data return
PassCommit(r) ==
    /\ passPc[r] = "insert"
    /\ passRow[r] > Len(BarsOf(Head(passMissing[r])))
    /\ stock_daily' = stock_daily (+) SetToBag(pending[r])
    /\ pending' = [pending EXCEPT ![r] = {}]
    /\ committed' = [committed EXCEPT ![r] = @ \cup {Head(passMissing[r])}]
    /\ PassNextDate(r)
    /\ UNCHANGED <<firstWritten, saveResult, conflicts, passVars, stratVars, coreVars,
                   botFaults>>

\* the store raises inside to_sql: the transaction is rolled back, save_data
\* prints the error and fetch_daily_data returns
PassAbort(r) ==
    /\ passPc[r] = "insert"
    /\ botFaults < MaxBotFaults
    /\ botFaults' = botFaults + 1
    /\ pending' = [pending EXCEPT ![r] = {}]
    /\ PassNextDate(r)
    /\ UNCHANGED <<storeVars, passVars, stratVars, coreVars, committed>>


\* a check_auth whose mismatch branch replies but does not return False
check_auth_no_return(id) == TRUE

\* check_auth: everybody is allowed when no chat id is set, otherwise the chat
\* whose id, as a string, is the setting
check_auth(id) ==
    IF ALLOWED_CHAT_ID = "" THEN TRUE ELSE str(id) = ALLOWED_CHAT_ID

\* the reply of check_auth to a chat that is not the allowed one
DenialTo(id) ==
    IF ALLOWED_CHAT_ID # "" /\ str(id) # ALLOWED_CHAT_ID
    THEN {<<str(id), "access denied">>} ELSE {}

\* core_logic(context, chat, manual) is called
CallCoreLogic(r, chat) ==
    /\ corePc' = [corePc EXCEPT ![r] = "start"]
    /\ chat_id' = [chat_id EXCEPT ![r] = chat]
    /\ steps' = [steps EXCEPT ![r] = {}]
    /\ window_df' = [window_df EXCEPT ![r] = {}]
    /\ strategy_out' = [strategy_out EXCEPT ![r] = "none"]
    /\ passPc' = [passPc EXCEPT ![r] = "none"]
    /\ committed' = [committed EXCEPT ![r] = {}]

\* /run
run_command(id) ==
    /\ corePc["manual"] = "idle"
    /\ updates < MaxUpdates
    /\ updates' = updates + 1
    /\ sent' = sent \cup DenialTo(id)
    /\ IF check_auth(id)
       THEN CallCoreLogic("manual", str(id))
       ELSE UNCHANGED <<corePc, chat_id, steps, window_df, strategy_out, passPc, committed>>
    /\ UNCHANGED <<storeVars, passVars, stratVars, ALLOWED_CHAT_ID, passMissing, passRow,
                   pending, csvFiles, jobs, botFaults>>

\* /last
get_last_csv(id) ==
    /\ corePc["manual"] = "idle"
    /\ updates < MaxUpdates
    /\ updates' = updates + 1
    /\ sent' = sent \cup DenialTo(id)
                    \cup (IF ~check_auth(id) THEN {}
                          ELSE IF csvFiles THEN {<<str(id), "last csv">>}
                          ELSE {<<str(id), "no csv yet">>})
    /\ UNCHANGED <<storeVars, passVars, stratVars, ALLOWED_CHAT_ID, corePc, chat_id, passPc,
                   passMissing, passRow, pending, committed, steps, window_df, strategy_out,
                   csvFiles, jobs, botFaults>>

\* the daily job, registered only when a chat id is set
scheduled_task ==
    /\ ALLOWED_CHAT_ID # ""
    /\ corePc["scheduled"] = "idle"
    /\ jobs < MaxJobs
    /\ jobs' = jobs + 1
    /\ CallCoreLogic("scheduled", ALLOWED_CHAT_ID)
    /\ UNCHANGED <<storeVars, passVars, stratVars, ALLOWED_CHAT_ID, passMissing, passRow,
                   pending, sent, csvFiles, updates, botFaults>>

\* core_logic up to its first await of the executor: two messages, then
\* backfill_data is handed to the executor
CoreBegin(r) ==
    /\ corePc[r] = "start"
    /\ sent' = sent \cup {<<chat_id[r], "starting">>, <<chat_id[r], "checking data">>}
    /\ passPc' = [passPc EXCEPT ![r] = "query"]
    /\ corePc' = [corePc EXCEPT ![r] = "await"]
    /\ steps' = [steps EXCEPT ![r] = @ \cup {"backfill started"}]
    /\ UNCHANGED <<storeVars, passVars, stratVars, ALLOWED_CHAT_ID, chat_id, passMissing,
                   passRow, pending, committed, window_df, strategy_out, csvFiles, updates,
                   jobs, botFaults>>

\* an exception inside the try block of core_logic: the warning is sent and
\* the run goes on
TryBlockRaises(r) ==
    /\ corePc[r] = "start"
    /\ botFaults < MaxBotFaults
    /\ botFaults' = botFaults + 1
    /\ sent' = sent \cup {<<chat_id[r], "starting">>, <<chat_id[r], "backfill warning">>}
    /\ corePc' = [corePc EXCEPT ![r] = "count"]
    /\ steps' = [steps EXCEPT ![r] = @ \cup {"backfill failed"}]
    /\ UNCHANGED <<storeVars, passVars, stratVars, ALLOWED_CHAT_ID, chat_id, passPc,
                   passMissing, passRow, pending, committed, window_df, strategy_out,
                   csvFiles, updates, jobs>>

\* a core_logic that does not wait for the executor
BackfillNotAwaited(r) ==
    /\ corePc[r] = "await"
    /\ corePc' = [corePc EXCEPT ![r] = "count"]
    /\ steps' = [steps EXCEPT ![r] = @ \cup {"backfill finished"}]
    /\ UNCHANGED <<storeVars, passVars, stratVars, ALLOWED_CHAT_ID, chat_id, passPc,
                   passMissing, passRow, pending, committed, window_df, strategy_out, sent,
                   csvFiles, updates, jobs, botFaults>>

\* await loop.run_in_executor(None, backfill_data, 200) returns
AwaitBackfill(r) ==
    /\ corePc[r] = "await"
    /\ passPc[r] = "done"
    /\ corePc' = [corePc EXCEPT ![r] = "count"]
    /\ steps' = [steps EXCEPT ![r] = @ \cup {"backfill finished"}]
    /\ UNCHANGED <<storeVars, passVars, stratVars, ALLOWED_CHAT_ID, chat_id, passPc,
                   passMissing, passRow, pending, committed, window_df, strategy_out, sent,
                   csvFiles, updates, jobs, botFaults>>

\* if row_count < 10000
min_rows == 10000

\* the counts check_data_count() can return: the table of the model holds the
\* window of two instruments, the real one a few thousand instruments
check_data_count(table) ==
    IF table = EmptyBag THEN {0} ELSE {min_rows - 1, min_rows}

\* row_count = check_data_count() and the test on it
CountRows(r) ==
    /\ corePc[r] = "count"
    /\ \E row_count \in check_data_count(stock_daily) :
         IF row_count < min_rows
         THEN /\ sent' = sent \cup {<<chat_id[r], "too little data">>}
              /\ corePc' = [corePc EXCEPT ![r] = "idle"]
              /\ steps' = [steps EXCEPT ![r] = @ \cup {"counted", "returned early"}]
         ELSE /\ sent' = sent
              /\ corePc' = [corePc EXCEPT ![r] = "read"]
              /\ steps' = [steps EXCEPT ![r] = @ \cup {"counted"}]
    /\ UNCHANGED <<storeVars, passVars, stratVars, ALLOWED_CHAT_ID, chat_id, passPc,
                   passMissing, passRow, pending, committed, window_df, strategy_out,
                   csvFiles, updates, jobs, botFaults>>

\* df = get_data(n_days=250): the rows of the window, or an empty frame when
\* the read failed; then the "scoring" message
ReadWindow(r, readOk) ==
    /\ corePc[r] = "read"
    /\ readOk \/ botFaults < MaxBotFaults
    /\ botFaults' = IF readOk THEN botFaults ELSE botFaults + 1
    /\ window_df' = [window_df EXCEPT ![r] = IF readOk THEN BagToSet(stock_daily) ELSE {}]
    /\ sent' = sent \cup {<<chat_id[r], "scoring">>}
    /\ corePc' = [corePc EXCEPT ![r] = "score"]
    /\ steps' = [steps EXCEPT ![r] = @ \cup {"window read"}]
    /\ UNCHANGED <<storeVars, passVars, stratVars, ALLOWED_CHAT_ID, chat_id, passPc,
                   passMissing, passRow, pending, committed, strategy_out, csvFiles,
                   updates, jobs>>

\* what run_strategy(df) can return for a frame of rows whose prices the bot
\* model does not hold: nothing for an empty frame
run_strategy(df) == IF df = {} THEN {"empty"} ELSE {"empty", "selected"}

\* results = run_strategy(df)
ScoreWindow(r) ==
    /\ corePc[r] = "score"
    /\ \E out \in run_strategy(window_df[r]) :
         strategy_out' = [strategy_out EXCEPT ![r] = out]
    /\ corePc' = [corePc EXCEPT ![r] = "notify"]
    /\ steps' = [steps EXCEPT ![r] = @ \cup {"scored"}]
    /\ UNCHANGED <<storeVars, passVars, stratVars, ALLOWED_CHAT_ID, chat_id, passPc,
                   passMissing, passRow, pending, committed, window_df, sent, csvFiles,
                   updates, jobs, botFaults>>

\* the end of core_logic: csv, message and document, or "nothing today"
Notify(r) ==
    /\ corePc[r] = "notify"
    /\ IF strategy_out[r] = "selected"
       THEN /\ csvFiles' = TRUE
            /\ sent' = sent \cup {<<chat_id[r], "result">>, <<chat_id[r], "result csv">>}
       ELSE /\ csvFiles' = csvFiles
            /\ sent' = sent \cup {<<chat_id[r], "nothing today">>}
    /\ corePc' = [corePc EXCEPT ![r] = "idle"]
    /\ steps' = [steps EXCEPT ![r] = @ \cup {"notified"}]
    /\ UNCHANGED <<storeVars, passVars, stratVars, ALLOWED_CHAT_ID, chat_id, passPc,
                   passMissing, passRow, pending, committed, window_df, strategy_out,
                   updates, jobs, botFaults>>

\* rows a previous day's run left in the table
BotStores == {EmptyBag, SetToBag({Row("A", Today - 1, 1)})}

InitBot ==
    /\ stock_daily \in BotStores
    /\ StoreIdle
    /\ pro = TRUE
    /\ PassIdle
    /\ StratIdle
    /\ ALLOWED_CHAT_ID \in ChatIdSettings
    /\ corePc = [r \in Runs |-> "idle"]
    /\ chat_id = [r \in Runs |-> ""]
    /\ passPc = [r \in Runs |-> "none"]
    /\ passMissing = [r \in Runs |-> <<>>]
    /\ passRow = [r \in Runs |-> 0]
    /\ pending = [r \in Runs |-> {}]
    /\ committed = [r \in Runs |-> {}]
    /\ steps = [r \in Runs |-> {}]
    /\ window_df = [r \in Runs |-> {}]
    /\ strategy_out = [r \in Runs |-> "none"]
    /\ sent = {}
    /\ csvFiles = FALSE
    /\ updates = 0
    /\ jobs = 0
    /\ botFaults = 0

NextBot ==
    \/ \E id \in Chats : run_command(id)
    \/ \E id \in Chats : get_last_csv(id)
    \/ scheduled_task
    \/ \E r \in Runs : CoreBegin(r)
    \/ \E r \in Runs : TryBlockRaises(r)
    \/ \E r \in Runs, queryOk \in BOOLEAN : PassQuery(r, queryOk)
    \/ \E r \in Runs : PassFetch(r)
    \/ \E r \in Runs : PassFetchGivesUp(r)
    \/ \E r \in Runs : PassInsert(r)
    \/ \E r \in Runs : PassCommit(r)
    \/ \E r \in Runs : PassAbort(r)
    \/ \E r \in Runs : AwaitBackfill(r)
    \/ \E r \in Runs : CountRows(r)
    \/ \E r \in Runs, readOk \in BOOLEAN : ReadWindow(r, readOk)
    \/ \E r \in Runs : ScoreWindow(r)
    \/ \E r \in Runs : Notify(r)

SpecBot == InitBot /\ [][NextBot]_vars

----------------------------------------------------------------------------
(* Claims about the store and the reconciliation pass *)

RowsOfKey(table, k) == {r \in BagToSet(table) : Key(r) = k}
RowsOfDay(table, d) == {r \in BagToSet(table) : r.trade_date = d}

\* C1: after any sequence of save_data calls every key that was written has
\* exactly one row, holding the values of the first row written for it, every
\* other key has no row, and no call raised.
C1_FirstWriteWins ==
    /\ saveResult # "raised"
    /\ \A k \in SaveKeys :
         IF k \notin DOMAIN firstWritten
         THEN RowsOfKey(stock_daily, k) = {}
         ELSE /\ RowsOfKey(stock_daily, k) = {Row(k[1], k[2], firstWritten[k])}
              /\ CopiesIn(Row(k[1], k[2], firstWritten[k]), stock_daily) = 1
    /\ BagCardinality(stock_daily) = Cardinality(DOMAIN firstWritten)

\* a successful save_data call whose frame carried a key written before, once
\* with the values stored for it and once with other values
C1_Witness ==
    /\ saveResult = "ok"
    /\ conflicts = {"same", "different"}

\* the days of the window without a row in the table
DaysWithoutRows(table) == {d \in WindowDays : RowsOfDay(table, d) = {}}

\* log is the ascending list, without repetition, of the days of the set days
IsAscendingListOf(log, days) ==
    /\ Len(log) = Cardinality(days)
    /\ \A i \in 1..Len(log) : log[i].fmt = "%Y%m%d" /\ log[i].day \in days
    /\ \A i, j \in 1..Len(log) : i < j => log[i].day < log[j].day

\* C2: a finished pass has called fetch_daily_data for exactly the window dates
\* that had no stored row when it started, once each, in ascending order.
C2_FetchesExactlyMissing ==
    pc = "done" => IsAscendingListOf(fetchLog, DaysWithoutRows(storeAtStart))

\* the fetch of the current date has ended in this step
FetchEnded == pc = "attempt" /\ pc' # "attempt"

\* the bars the upstream holds for the date being fetched
FetchedBars ==
    {Row(c, curTs.day, 2) : c \in IF IsTradingDay(curTs.day) THEN Codes ELSE {}}

C3_Step ==
    /\ calls' <= 3
    /\ (calls' = calls + 1 /\ calls >= 1) => lastResp = "error"
    /\ (calls' = calls + 1 /\ lastResp' = "empty") =>
            FetchEnded /\ stock_daily' = stock_daily
    /\ (calls' = calls + 1 /\ lastResp' = "data") =>
            /\ FetchEnded
            /\ saveResult' \in {"ok", "caught"}
            /\ saveResult' = "ok" =>
                  \A r \in FetchedBars : RowsOfKey(stock_daily', Key(r)) # {}

\* C3: one fetch_daily_data makes at most 3 upstream calls, a further call only
\* after an error; an empty answer ends it with no write, an answer with bars
\* is handed to save_data and ends it.
C3_RetryDiscipline == [][C3_Step]_vars

\* the third attempt of a fetch has just failed
C3_WitnessExhausted ==
    /\ calls = 3 /\ lastResp = "error"
    /\ \E d \in exhausted : fetchLog[Len(fetchLog)].day = d

\* C4: a date whose fetch failed on every attempt raises nothing: the pass is
\* still running or done, a finished pass has fetched every date of
\* missing_dates, the failed date has the rows it had when the pass started
\* (none, for a date that was missing), and the next pass lists it as missing.
C4_FailureDoesNotAbort ==
    /\ pc \in {"idle", "query", "fetch", "attempt", "done"}
    /\ \A d \in exhausted :
         /\ RowsOfDay(stock_daily, d) = RowsOfDay(storeAtStart, d)
         /\ pc = "done" =>
              /\ Len(fetchLog) = Len(missing_dates)
              /\ \A i \in 1..Len(missing_dates) : fetchLog[i] = replace_dash(missing_dates[i])
    /\ \A d \in prevExhausted :
         (RowsOfDay(storeAtStart, d) = {} /\ pc \in {"fetch", "attempt", "done"}) =>
              \E i \in 1..Len(missing_dates) : missing_dates[i] = strftime(d)

\* a pass is done in which a date that was not the last one failed on all
\* attempts and a later date was fetched and stored
C4_Witness ==
    /\ pc = "done"
    /\ \E d \in exhausted :
         /\ RowsOfDay(storeAtStart, d) = {}
         /\ RowsOfDay(stock_daily, d) = {}
         /\ \E e \in WindowDays :
              /\ e > d
              /\ RowsOfDay(storeAtStart, e) = {}
              /\ RowsOfDay(stock_daily, e) # {}

\* C5: a failed presence query ends the pass with the error before any fetch;
\* otherwise the pass never raises.
C5_QueryFailureIsFatal ==
    /\ queryFailed => (pc = "raised" /\ fetchLog = <<>>)
    /\ ~queryFailed => pc # "raised"

\* C6: a second pass over the same window fetches no date that has a stored
\* row, fetches each window date without rows exactly once, and leaves every
\* key stored before it with its one row unchanged.
C6_SecondPass ==
    (passNo >= 2 /\ pc = "done") =>
        /\ IsAscendingListOf(fetchLog, DaysWithoutRows(storeAtStart))
        /\ \A r \in BagToSet(storeAtStart) :
             /\ RowsOfKey(stock_daily, Key(r)) = {r}
             /\ CopiesIn(r, stock_daily) = 1


\* the number of times this pass has called fetch_daily_data for day d
FetchesOf(d) == Cardinality({i \in 1..Len(fetchLog) : fetchLog[i].day = d})

\* C20: when save_data fails on the bars of a date, nothing is raised, the
\* fetch of that date is over (no further upstream call for it in the pass,
\* and it does not count as a failed fetch), the table holds for that date what
\* it held when the pass started (nothing, for a date that was missing), and
\* a next pass that finds the date without rows fetches it again.
C20_FailedWriteLeavesDateMissing ==
    /\ pc # "raised"
    /\ saveResult # "raised"
    /\ \A d \in writeFailed :
         /\ ~(pc = "attempt" /\ curTs.day = d)
         /\ FetchesOf(d) = 1
         /\ d \notin exhausted
         /\ RowsOfDay(stock_daily, d) = RowsOfDay(storeAtStart, d)
    /\ \A d \in prevWriteFailed :
         (RowsOfDay(storeAtStart, d) = {} /\ pc = "done") => FetchesOf(d) = 1

\* the write of a missing date failed in the first pass after one upstream
\* call; the second pass found the date still without rows, fetched it again
\* and stored it
C20_Witness ==
    /\ passNo = 2 /\ pc = "done"
    /\ \E d \in prevWriteFailed :
         /\ d \notin prevExhausted
         /\ RowsOfDay(storeAtStart, d) = {}
         /\ FetchesOf(d) = 1
         /\ RowsOfDay(stock_daily, d) # {}

----------------------------------------------------------------------------
(* Claims about the scoring engine *)

LatestBar(c) == frame[c][Len(frame[c])]
LatestRow(c) == IndRow(c, frame[c], Len(frame[c]))
CurRow(c) == current_df[CHOOSE i \in 1..Len(current_df) : current_df[i].ts_code = c]
FinalCodes == {final_df[i].ts_code : i \in 1..Len(final_df)}
ResultCodes == {results[i].ts_code : i \in 1..Len(results)}

\* the most recent trade date of a frame that is not empty
NewestDate ==
    LET ends == {LatestBar(c).trade_date : c \in {g \in Codes : frame[g] # <<>>}}
    IN  CHOOSE d \in ends : \A e \in ends : e <= d

SubScoreKeys ==
    {"vol_score", "drop_score", "core", "trend_score", "volatility_score",
     "price_score", "extra", "ratio_val"}

\* C7: an instrument whose latest row has close >= open gets exactly the record
\* {total: 0, reason: not green}, with no sub-score, and never enters the
\* result of run, whatever its other metrics.
C7_FirstGateShortCircuits ==
    \A c \in Codes :
        (frame[c] # <<>> /\ LatestBar(c).close >= LatestBar(c).open) =>
            /\ c \notin ResultCodes
            /\ c \notin FinalCodes
            /\ c \in DOMAIN scored =>
                 /\ DOMAIN scored[c] = {"total", "reason"}
                 /\ scored[c].total = 0
                 /\ scored[c].reason = "not green"

\* a finished run that scored an instrument with 70 or more bars, volume at
\* most half of the prior-20 minimum, close below ma_60 and a price between 3
\* and 30, whose latest bar is not green, and accepted the other instrument
C7_Witness ==
    /\ runPc = "done"
    /\ \E c \in DOMAIN scored :
         /\ Len(frame[c]) >= 70
         /\ CurRow(c).close >= CurRow(c).open
         /\ Le(Q(2 * CurRow(c).volume), CurRow(c).prev_vol_min_20)
         /\ Lt(CurRow(c).distance_ma60, Q(0))
         /\ CurRow(c).close > 300 /\ CurRow(c).close <= 3000
         /\ scored[c].total = 0
         /\ FinalCodes = Codes \ {c}

\* a gate of calculate_scores fails on the row
GateFails(row) ==
    \/ row.close >= row.open
    \/ isnull(row.prev_vol_min_20)
    \/ 10 * row.volume * row.prev_vol_min_20.d >= 8 * row.prev_vol_min_20.n

\* C8: whichever gate fails, the returned record has total 0, a disqualification
\* reason and no sub-score.
C8_EveryGateRecordsReason ==
    \A c \in DOMAIN scored :
        GateFails(CurRow(c)) =>
            /\ scored[c].total = 0
            /\ "reason" \in DOMAIN scored[c]
            /\ DOMAIN scored[c] \cap SubScoreKeys = {}

\* C9: an instrument with fewer than 70 bars never gets a score record from
\* run; one with 70 or more bars and a bar on the last date is evaluated.
C9_MinimumHistory70 ==
    \A c \in Codes :
        /\ Len(frame[c]) < 70 => (c \notin ResultCodes /\ c \notin FinalCodes)
        /\ (Len(frame[c]) >= 70 /\ runPc = "done" /\ LatestBar(c).trade_date = NewestDate)
              => c \in DOMAIN scored

\* the instruments run has to return: a bar on the newest date of the frame,
\* scored at least 60
Expected ==
    IF \A c \in Codes : frame[c] = <<>> THEN {}
    ELSE {c \in Codes :
            /\ frame[c] # <<>>
            /\ LatestBar(c).trade_date = NewestDate
            /\ calculate_scores(LatestRow(c)).total >= 60}

\* C10: run ends normally, and its result holds one record for each instrument
\* that has a bar on the newest date of the frame and scores at least 60 there,
\* and nothing else; it is empty when the frame is empty or nobody reaches 60.
C10_ResultIsThresholdedLatest ==
    /\ runPc \in {"start", "scoring", "done"}
    /\ runPc = "done" =>
         /\ FinalCodes = Expected
         /\ Len(final_df) = Cardinality(Expected)
         /\ Expected = {} => final_df = <<>>

\* a finished run that returned one instrument and left out the other, which
\* scores at least 60 on its own latest bar but has no bar on the newest date
C10_Witness ==
    /\ runPc = "done"
    /\ Len(final_df) = 1
    /\ \E c \in Codes \ FinalCodes :
         /\ frame[c] # <<>>
         /\ LatestBar(c).trade_date < NewestDate
         /\ calculate_scores(LatestRow(c)).total >= 60

\* position of the record of ts_code c in the list results
PosInResults(c) == CHOOSE i \in 1..Len(results) : results[i].ts_code = c

\* C11: the returned records are in non-increasing order of total score, and
\* records with equal totals are in the order in which the loop appended them
\* (the order of the instrument groups), so the order is a function of the
\* input.
C11_StableDescendingOrder ==
    runPc = "done" =>
        \A i, j \in 1..Len(final_df) :
            i < j =>
                /\ final_df[i].total >= final_df[j].total
                /\ final_df[i].total = final_df[j].total =>
                     PosInResults(final_df[i].ts_code) < PosInResults(final_df[j].ts_code)

\* what run did with instrument c: whether it is in the returned frame, and the
\* dict calculate_scores returned for it (none when c was not evaluated)
OutcomeOfRun(c) ==
    [present |-> c \in FinalCodes,
     scores |-> IF c \in DOMAIN scored THEN scored[c] ELSE <<>>]

\* the same for run on the frame df
OutcomeIn(df, c) ==
    LET rows == IF FrameEmpty(df) THEN <<>> ELSE CurrentRows(df, <<c>>, last_date(df))
    IN  IF rows = <<>> THEN [present |-> FALSE, scores |-> <<>>]
        ELSE [present |-> meets_min_score(calculate_scores(rows[1])),
              scores |-> calculate_scores(rows[1])]

\* other groups to put in the place of an instrument's bars
AltSeries ==
    { <<>>,
      MakeSeries(21, Today,
                 [open |-> 810, high |-> 815, low |-> 780, close |-> 800, vol |-> 400]),
      MakeSeries(70, Today - 1,
                 [open |-> 9000, high |-> 9000, low |-> 8990, close |-> 8990, vol |-> 790]),
      MakeSeries(MaxBars, Today,
                 [open |-> 1005, high |-> 1005, low |-> 985, close |-> 990, vol |-> 750]) }

\* the frames that hold the bars of frame for c and other bars for the rest
AltFrames(c) ==
    {[g \in Codes |-> IF g = c THEN frame[c] ELSE s] : s \in AltSeries}

\* C12 as claimed: whatever bars a frame holds for the other instruments, run
\* gives an instrument the outcome it has in this run.
C12_NoInterference ==
    runPc = "done" =>
        \A c \in Codes :
            frame[c] # <<>> =>
                \A f \in AltFrames(c) : OutcomeIn(f, c) = OutcomeOfRun(c)

\* C12, amended: two frames that hold the same bars for an instrument and have
\* the same most recent trade date give it the same outcome.
C12_NoInterferenceSameLastDate ==
    runPc = "done" =>
        \A c \in Codes :
            frame[c] # <<>> =>
                \A f \in AltFrames(c) :
                    last_date(f) = last_date(frame) => OutcomeIn(f, c) = OutcomeOfRun(c)

\* a finished run returned an instrument, and another frame with the same
\* last date holds other bars for the other instrument
C12_Witness ==
    /\ runPc = "done"
    /\ \E c \in FinalCodes :
         \E f \in AltFrames(c) :
            /\ f # frame
            /\ last_date(f) = last_date(frame)
            /\ \E g \in Codes \ {c} : Len(f[g]) # Len(frame[g]) /\ f[g] # <<>>

\* the group x with one more bar, dated the day after its last bar
WithLaterBar(x) ==
    Append(x, [trade_date |-> x[Len(x)].trade_date + 1, open |-> 2000, high |-> 2100,
               low |-> 1900, close |-> 2000, vol |-> 5000])

\* frames that hold for c the bars of frame, with or without a later bar, and
\* the same or other bars for the other instruments
LaterFrames(c) ==
    {[g \in Codes |-> IF g = c THEN x ELSE s] :
        x \in {frame[c], WithLaterBar(frame[c])},
        s \in AltSeries \cup UNION {{frame[g]} : g \in Codes \ {c}}}

\* C14: the ma_60 that calculate_indicators gives an instrument at date T is
\* the one it gives it at T in every frame that holds the same bars of that
\* instrument up to T, whatever later bars of the instrument and whatever bars
\* of other instruments the frame holds.
C14_Ma60NoLookAhead ==
    \A i \in 1..Len(current_df) :
        LET row == current_df[i]
        IN  \A f \in LaterFrames(row.ts_code) :
                CurrentRows(f, <<row.ts_code>>, row.trade_date)[1].ma_60 = row.ma_60

\* the indicators were computed for an instrument with a full 60-bar window
\* that would get another average at its last date if a later bar counted
C14_Witness ==
    /\ runPc \in {"scoring", "done"}
    /\ \E i \in 1..Len(current_df) :
         LET row == current_df[i]
             x == WithLaterBar(frame[row.ts_code])
         IN  /\ notnull(row.ma_60)
             /\ row.ma_60 # rolling_mean(close_col(x), 60, Len(x))

\* the volumes of the n bars of x just before bar i
VolumesBefore(x, i, n) == {x[j].vol : j \in {k \in (i - n)..(i - 1) : k >= 1}}

\* the bars of an instrument at which C17 is evaluated
ProbeBars(x) == {i \in {1, 20, 21, 22, Len(x) - 1, Len(x)} : i >= 1 /\ i <= Len(x)}

\* C17: at bar i of an instrument prev_vol_min_20 is the least volume among
\* its bars i-20 .. i-1, and is not a number when the instrument has fewer than
\* 20 bars before i; bar i itself, later bars and the bars of other
\* instruments do not enter.
C17_PrevVolMin20 ==
    /\ runPc = "start" =>
         \A c \in Codes : \A i \in ProbeBars(frame[c]) :
            LET m == prev_vol_min_20(frame[c], i)
            IN  IF i <= 20 THEN isnull(m)
                ELSE /\ notnull(m) /\ m.d = 1
                     /\ m.n \in VolumesBefore(frame[c], i, 20)
                     /\ \A v \in VolumesBefore(frame[c], i, 20) : m.n <= v
    /\ \A k \in 1..Len(current_df) :
         LET row == current_df[k]
             x == frame[row.ts_code]
         IN  /\ Len(x) <= 20 => isnull(row.prev_vol_min_20)
             /\ Len(x) > 20 =>
                  /\ row.prev_vol_min_20.d = 1
                  /\ row.prev_vol_min_20.n \in VolumesBefore(x, Len(x), 20)
                  /\ \A v \in VolumesBefore(x, Len(x), 20) : row.prev_vol_min_20.n <= v
             /\ \A f \in LaterFrames(row.ts_code) :
                  CurrentRows(f, <<row.ts_code>>, row.trade_date)[1].prev_vol_min_20
                      = row.prev_vol_min_20

\* the run computed prev_vol_min_20 for an instrument with exactly 20 earlier
\* bars, whose last bar has a volume below all of them, and for an instrument
\* with 20 bars in all, where it is not a number
C17_Witness ==
    /\ runPc \in {"scoring", "done"}
    /\ \E k \in 1..Len(current_df) :
         /\ Len(frame[current_df[k].ts_code]) = 21
         /\ Lt(Q(current_df[k].volume), current_df[k].prev_vol_min_20)
    /\ \E k \in 1..Len(current_df) :
         /\ Len(frame[current_df[k].ts_code]) = 20
         /\ isnull(current_df[k].prev_vol_min_20)

\* the scenario of C15: close 8.00, 60-day average 10.00, volume at half of
\* its 20-day average, close at or above the floor of 3.00
Scenario(row) ==
    /\ row.close = 800
    /\ notnull(row.ma_60) /\ row.ma_60.n = 1000 * row.ma_60.d
    /\ notnull(row.vol_ma20) /\ 2 * row.volume * row.vol_ma20.d = row.vol_ma20.n
    /\ row.close >= 300

\* C15 as claimed: every instrument of the scenario passes the gates and gets
\* a volume sub-score above zero.
C15_ScenarioPassesGates ==
    \A c \in DOMAIN scored :
        Scenario(CurRow(c)) =>
            /\ "vol_score" \in DOMAIN scored[c]
            /\ scored[c].vol_score > 0

\* C15, amended: an instrument of the scenario whose latest bar closes below
\* its open and whose volume is below 80% of the least volume of its 20
\* preceding bars passes the gates and gets a volume sub-score above zero.
C15_GreenShrunkScenarioPassesGates ==
    \A c \in DOMAIN scored :
        (/\ Scenario(CurRow(c))
         /\ CurRow(c).close < CurRow(c).open
         /\ notnull(CurRow(c).prev_vol_min_20)
         /\ 10 * CurRow(c).volume * CurRow(c).prev_vol_min_20.d
                < 8 * CurRow(c).prev_vol_min_20.n) =>
            /\ DOMAIN scored[c] = SubScoreKeys \cup {"total"}
            /\ scored[c].vol_score \in {30, 35, 38, 40}
            /\ scored[c].total > 0

\* an instrument of the scenario with a green bar and a volume between 50% and
\* 80% of the prior minimum was scored
C15_Witness ==
    \E c \in DOMAIN scored :
        /\ Scenario(CurRow(c))
        /\ CurRow(c).close < CurRow(c).open
        /\ Gt(ratio_of(CurRow(c)), Tenths(5))
        /\ "vol_score" \in DOMAIN scored[c]
        /\ scored[c].vol_score = 30

\* C16: a row that passes every gate gets a volume sub-score of 30, 35, 38 or
\* 40, a drop sub-score of 0, 5, 8 or 10, at most 15 for trend, 10 for
\* volatility, 10 for price and 15 extra, none below zero, and a total that is
\* the sum of these capped at 100, so between 30 and 100.
C16_CategoryRanges ==
    \A c \in DOMAIN scored :
        ~GateFails(CurRow(c)) =>
            LET s == scored[c]
                sum == s.vol_score + s.drop_score + s.trend_score + s.volatility_score
                       + s.price_score + s.extra
            IN  /\ DOMAIN s = SubScoreKeys \cup {"total"}
                /\ s.vol_score \in {30, 35, 38, 40}
                /\ s.drop_score \in {0, 5, 8, 10}
                /\ s.trend_score \in 0..15
                /\ s.volatility_score \in 0..10
                /\ s.price_score \in 0..10
                /\ s.extra \in 0..15
                /\ s.core = s.vol_score + s.drop_score
                /\ s.total = (IF sum < 100 THEN sum ELSE 100)
                /\ s.total >= 30 /\ s.total <= 100

\* a row was scored with every category at its maximum, for a total of 100
C16_Witness ==
    \E c \in DOMAIN scored :
        /\ ~GateFails(CurRow(c))
        /\ scored[c].vol_score = 40 /\ scored[c].drop_score = 10
        /\ scored[c].trend_score = 15 /\ scored[c].volatility_score = 10
        /\ scored[c].price_score = 10 /\ scored[c].extra = 15
        /\ scored[c].total = 100


-----------------------------------------------------------------------------
(* Claims about the bot: overlapping runs, the order of the steps of a run, *)
(* and the access check                                                     *)

\* the rows the table holds for key k
RowsWithKey(table, k) == {x \in BagToSet(table) : Key(x) = k}

\* C13: while the reconciliation passes of a manual and a scheduled run
\* overlap and write the same dates, in every interleaving of their inserts
\* and commits the table holds every row once, no two rows share a
\* (ts_code, trade_date) key, every row carries all its fields, and every
\* key of a date that a pass has written has exactly one row.
C13_OneCompleteRowPerKey ==
    /\ \A x \in BagToSet(stock_daily) :
         /\ CopiesIn(x, stock_daily) = 1
         /\ x \in [ts_code : Codes, trade_date : BotWindow, val : Vals]
         /\ RowsWithKey(stock_daily, Key(x)) = {x}
    /\ \A r \in Runs : \A d \in committed[r] : \A i \in 1..Len(BarsOf(d)) :
         Cardinality(RowsWithKey(stock_daily, Key(BarsOf(d)[i]))) = 1

\* both passes found the same date missing, both have written it, and the
\* date has one row per instrument
C13_Witness ==
    /\ botFaults = 0
    /\ \A r \in Runs : passPc[r] = "done"
    /\ \E d \in committed["manual"] \cap committed["scheduled"] :
         /\ BarsOf(d) # <<>>
         /\ \A c \in Codes : Cardinality(RowsWithKey(stock_daily, <<c, d>>)) = 1


\* C18: in every run of core_logic the reconciliation pass has finished, or
\* its try block has failed, before the row count and the window read (and no
\* pass of the run is at work from then on); the window is read before it is
\* scored and scored before the result is sent; a run whose try block failed
\* is not stopped by that: it goes on to the row count, and ends only by the
\* early return on a low row count or after it has read, scored and notified.
C18_StepsInSequence ==
    \A r \in Runs :
      /\ "counted" \in steps[r] =>
           \/ "backfill finished" \in steps[r] /\ passPc[r] = "done"
           \/ "backfill failed" \in steps[r] /\ passPc[r] = "none"
      /\ corePc[r] \in {"count", "read", "score", "notify"} => passPc[r] \in {"none", "done"}
      /\ "window read" \in steps[r] => "counted" \in steps[r] /\ "returned early" \notin steps[r]
      /\ "scored" \in steps[r] => "window read" \in steps[r]
      /\ "notified" \in steps[r] => "scored" \in steps[r] /\ strategy_out[r] # "none"
      /\ corePc[r] = "idle" /\ steps[r] # {} =>
           "returned early" \in steps[r] \/ "notified" \in steps[r]
      /\ corePc[r] = "read" => "counted" \in steps[r]
      /\ corePc[r] = "score" => "window read" \in steps[r]
      /\ corePc[r] = "notify" => "scored" \in steps[r]

\* a run whose try block failed has read the window, scored it and sent its
\* result, and another run has done so after its pass finished
C18_Witness ==
    \E r \in Runs :
      /\ corePc[r] = "idle"
      /\ {"backfill failed", "counted", "window read", "scored", "notified"} \subseteq steps[r]
      /\ <<chat_id[r], "result csv">> \in sent
      /\ {"backfill finished", "notified"} \subseteq steps[OtherRun(r)]


\* a /run or /last of chat id while a chat id is set that is not id's
DeniedCommand(id) ==
    /\ ALLOWED_CHAT_ID # ""
    /\ str(id) # ALLOWED_CHAT_ID
    /\ run_command(id) \/ get_last_csv(id)

\* C19: with an allowed chat id set, a /run or /last from any other chat
\* changes nothing but the messages sent, to which it adds one access-denied
\* reply (and the update is consumed): no core_logic starts, no file is
\* sent, the table is unchanged; so every run of core_logic is for the
\* allowed chat and every other chat has only ever received denials.
C19_OtherChatsAreDenied ==
    /\ [][\A id \in Chats :
            DeniedCommand(id) =>
              /\ sent' = sent \cup {<<str(id), "access denied">>}
              /\ UNCHANGED <<storeVars, passVars, stratVars, ALLOWED_CHAT_ID, corePc, chat_id,
                             passPc, passMissing, passRow, pending, committed, steps,
                             window_df, strategy_out, csvFiles, jobs, botFaults>>]_vars
    /\ [](ALLOWED_CHAT_ID # "" =>
            /\ \A r \in Runs : chat_id[r] \in {"", ALLOWED_CHAT_ID}
            /\ \A m \in sent : m[1] # ALLOWED_CHAT_ID => m[2] = "access denied")

\* the other chat has been denied while a result file exists and a run of
\* the allowed chat is under way
C19_Witness ==
    /\ ALLOWED_CHAT_ID = "100"
    /\ <<"200", "access denied">> \in sent
    /\ csvFiles
    /\ \E r \in Runs : corePc[r] # "idle" /\ chat_id[r] = "100"

====
